---- MODULE Spec2Model ----
(***************************************************************************)
(* Vote casting of the eboto election router                               *)
(* (packages/api/src/router/election.ts) over the tables of                *)
(* packages/db/schema/schema.ts.                                           *)
(*                                                                         *)
(* Time is counted in hours.  A table is a sequence of rows in insertion   *)
(* order.  The primary key of an election row is its place in the table;   *)
(* the nanoid keys of position, candidate and voter rows are drawn from    *)
(* per-table counters, so that a key is never handed out twice.            *)
(***************************************************************************)
EXTENDS Integers, Sequences, FiniteSets, TLC

VARIABLES
    elections,      \* table "election"
    commissioners,  \* table "commissioner"
    partylists,     \* table "partylist"
    positions,      \* table "position"
    candidates,     \* table "candidate"
    voters,         \* table "voter"
    votes,          \* table "vote"
    now,            \* the server clock read by `new Date()`
    pc,             \* per request slot: where the `vote` handler stands
    session,        \* per request slot: ctx.session.user.id of the caller
    input,          \* per request slot: the input of the `vote` mutation
    result,         \* per request slot: the response of the handler
    prior,          \* per request slot: a successful ballot of the same
                    \* caller for the same election had been answered when
                    \* this request arrived (history)
    ncalls,         \* number of `vote` requests received so far
    guard,          \* one evaluation of isElectionOngoing: input and output
    nanoids,        \* per table: number of nanoid() keys handed out
    realtime,       \* the response of the last getElectionRealtime that
                    \* was answered since the store was last written, and
                    \* whether one for the same election was answered
                    \* before it since then (history)
    creating,       \* the server action createElection in flight: the
                    \* inserts it has still to await
    edited,         \* the last editPartylist call: the acronym it asked
                    \* for and its response
    voterCall       \* the last createSingleVoter, editVoter or
                    \* deleteSingleVoter call: its election_id, whether
                    \* its caller was a commissioner of that election,
                    \* and its response

vars == <<elections, commissioners, partylists, positions, candidates, voters,
          votes, now, pc, session, input, result, prior, ncalls, guard,
          nanoids, realtime, creating, edited,
          voterCall>>

dbvars == <<elections, commissioners, partylists, positions, candidates,
            voters, votes>>
reqvars == <<pc, session, input, result, prior, ncalls>>
auxvars == <<guard, creating, edited, voterCall>>

-----------------------------------------------------------------------------
(* Bounds *)

MaxTime == 3        \* the clock runs over 0..MaxTime
MaxCalls == 2       \* `vote` requests received in one behaviour
GuardMaxTime == 29  \* clock range of the isElectionOngoing evaluations
MaxPositions == 2   \* positions made by createPosition in one behaviour
MaxCandidates == 3  \* candidates made in one behaviour
MaxVoters == 2      \* voters registered in one behaviour
MaxPartylists == 2  \* partylist rows of one behaviour
MaxDate == 1        \* start and end dates run over 0..MaxDate
MaxAdminRows == 3   \* rows made while an election is administered

-----------------------------------------------------------------------------
(* Values *)

NULL == "NULL"       \* a NULL in a text column
NoDate == -1         \* a NULL in a timestamp or hour column

Procs == {1, 2}                 \* request slots served concurrently
Users == {"u1", "u2"}           \* session.user.id of authenticated callers
Email(u) == IF u = "u1" THEN "u1@x" ELSE "u2@x"
Emails == {Email(u) : u \in Users}
Slugs == {"s1"}
ElectionIds == {1}              \* election_id values a caller may send
HoursPerDay == 24

\* The keys nanoid() hands out, per table, in the order it hands them out
Keys ==
    [position |-> <<"p1", "p2", "p3", "p4", "p5", "p6", "p7", "p8", "p9",
                    "p10", "p11", "p12", "p13", "p14", "p15", "p16", "p17",
                    "p18", "p19", "p20", "p21", "p22", "p23", "p24">>,
     candidate |-> <<"c1", "c2", "c3", "c4", "c5", "c6">>,
     voter |-> <<"v1", "v2", "v3", "v4", "v5", "v6">>]

\* The k-th key nanoid() hands out next for a table
nanoid(table, k) == Keys[table][nanoids[table] + k]

\* takenSlugs of @eboto-mo/constants
takenSlugs ==
    {"api", "settings", "election", "user", "token", "login", "signin",
     "signup", "logout", "forgot-password", "reset-password", "verify",
     "dashboard", "contact", "profile", "invite", "admin", "admin-dashboard",
     "admin-election", "admin-user", "admin-settings", "invitation"}

\* positionTemplate of @eboto-mo/constants, by organization id
positionTemplate(template) ==
    IF template = "1"
    THEN <<"President", "Vice President for Internal Affairs",
           "Vice President for External Affairs",
           "Vice President for Documentation", "Vice President for Finance",
           "Vice President for Budget Management",
           "Vice President for Operations",
           "Vice President for Public Relations",
           "Gender and Development Representative ">>
    ELSE <<>>

\* The responses of the `vote` mutation
NoResult == [code |-> "NONE", message |-> ""]
OK == [code |-> "OK", message |-> ""]
NotFound == [code |-> "NOT_FOUND", message |-> ""]
NotOngoing == [code |-> "UNAUTHORIZED", message |-> "Election is not ongoing"]
AlreadyVoted ==
    [code |-> "UNAUTHORIZED",
     message |-> "You have already voted in this election"]
\* db.insert(votes).values([]) throws before any statement is sent
InsertError ==
    [code |-> "INTERNAL_SERVER_ERROR",
     message |-> "values() must be called with at least one value"]

\* The ballots a caller may send: z.array({position_id, votes: z.array(string)})
BallotNoSelection == <<[position_id |-> "p1", votes |-> <<>>]>>
BallotOne ==
    <<[position_id |-> "p1", votes |-> <<>>],
      [position_id |-> "p2", votes |-> <<"c2">>]>>
BallotTwo ==
    <<[position_id |-> "p1", votes |-> <<"c1">>],
      [position_id |-> "p2", votes |-> <<"abstain">>]>>
Ballots == {BallotNoSelection, BallotOne, BallotTwo}

NoInput == [election_id |-> 0, votes |-> <<>>]

-----------------------------------------------------------------------------
(* Helpers over tables *)

RECURSIVE Flat(_)
\* Array.prototype.flat() of an array of arrays
Flat(ss) == IF ss = <<>> THEN <<>> ELSE Head(ss) \o Flat(Tail(ss))

\* UPDATE ... SET ... WHERE: rows matching `Where` are replaced by Set(row)
Update(table, Where(_), Set(_)) ==
    [i \in DOMAIN table |-> IF Where(table[i]) THEN Set(table[i]) ELSE table[i]]

\* DELETE ... WHERE
Delete(table, Where(_)) == SelectSeq(table, LAMBDA r : ~Where(r))

\* findFirst: <<row>> for the first matching row, <<>> for undefined
FindFirst(table, Where(_)) ==
    LET m == SelectSeq(table, Where) IN IF m = <<>> THEN <<>> ELSE <<m[1]>>

\* No response of getElectionRealtime
NoRealtime ==
    [slug |-> NULL, now |-> 0, again |-> FALSE, code |-> "NONE", out |-> <<>>]

\* No call of editPartylist
NoEdit == [newAcronym |-> NULL, result |-> NoResult]

\* No call of createSingleVoter, editVoter or deleteSingleVoter
NoCall == [election_id |-> 0, commissioner |-> FALSE, result |-> NoResult]

\* A response of getElectionRealtime is remembered until the store is written
Forget == realtime' = IF dbvars' # dbvars THEN NoRealtime ELSE realtime

-----------------------------------------------------------------------------
(* isElectionOngoing({ election }) of @eboto-mo/constants, with the clock  *)
(* as an explicit argument.  The voting hours are optional on the record.  *)

HoursConfigured(election) ==
    /\ "voting_start" \in DOMAIN election
    /\ "voting_end" \in DOMAIN election
    /\ election.voting_start # NoDate
    /\ election.voting_end # NoDate

isElectionOngoingEndExclusive(election, t) ==
    /\ election.start_date <= t
    /\ t < election.end_date
    /\ HoursConfigured(election) =>
          /\ election.voting_start <= t % HoursPerDay
          /\ t % HoursPerDay <= election.voting_end

isElectionOngoing(election, t) ==
    /\ election.start_date <= t
    /\ t <= election.end_date
    /\ HoursConfigured(election) =>
          /\ election.voting_start <= t % HoursPerDay
          /\ t % HoursPerDay <= election.voting_end

-----------------------------------------------------------------------------
(* electionRouter.vote *)

VoteRowsBothIds(vote, voter_id, election_id) ==
    [i \in 1..Len(vote.votes) |->
        [position_id |-> vote.position_id,
         candidate_id |->
            IF vote.votes[i] = "abstain" THEN NULL ELSE vote.votes[i],
         voter_id |-> voter_id, election_id |-> election_id]]

\* The rows of one ballot entry: vote.votes.map(candidate_id => ...)
VoteRows(vote, voter_id, election_id) ==
    [i \in 1..Len(vote.votes) |->
        IF vote.votes[i] = "abstain"
        THEN [position_id |-> vote.position_id, candidate_id |-> NULL,
              voter_id |-> voter_id, election_id |-> election_id]
        ELSE [candidate_id |-> vote.votes[i], position_id |-> NULL,
              voter_id |-> voter_id, election_id |-> election_id]]

\* The rows of a ballot stored under the caller's email
BallotRowsUnderEmail(inp, voter_id) ==
    Flat([k \in 1..Len(inp.votes) |->
            VoteRows(inp.votes[k], Email(voter_id), inp.election_id)])

\* input.votes.map(...).flat()
BallotRows(inp, voter_id) ==
    Flat([k \in 1..Len(inp.votes) |->
            VoteRows(inp.votes[k], voter_id, inp.election_id)])

InsertValuesFirstRow(table, rows) == Append(table, rows[1])

\* db.insert(votes).values(rows): one multi-row INSERT statement
InsertValues(table, rows) == table \o rows

ExistingVotesByEmail(voter_id, election_id) ==
    SelectSeq(votes, LAMBDA v :
        v.voter_id = Email(voter_id) /\ v.election_id = election_id)

\* db.query.votes.findMany of the caller's rows in the election
ExistingVotes(voter_id, election_id) ==
    SelectSeq(votes, LAMBDA v :
        v.voter_id = voter_id /\ v.election_id = election_id)

\* db.query.elections.findFirst({ where: eq(elections.id, id) })
ElectionById(id) == FindFirst(elections, LAMBDA e : e.id = id)

Answered(p, r) ==
    /\ pc' = [pc EXCEPT ![p] = "done"]
    /\ result' = [result EXCEPT ![p] = r]

\* A `vote` request arrives
VoteBegin(p, u, inp) ==
    /\ pc[p] \in {"idle", "done"}
    /\ ncalls < MaxCalls
    /\ ncalls' = ncalls + 1
    /\ pc' = [pc EXCEPT ![p] = "findElection"]
    /\ session' = [session EXCEPT ![p] = u]
    /\ input' = [input EXCEPT ![p] = inp]
    /\ result' = [result EXCEPT ![p] = NoResult]
    /\ prior' = [prior EXCEPT ![p] =
                    \E q \in Procs :
                        /\ pc[q] = "done"
                        /\ result[q] = OK
                        /\ session[q] = u
                        /\ input[q].election_id = inp.election_id]
    /\ UNCHANGED <<dbvars, now, auxvars, nanoids>>
    /\ Forget

VoteFindElectionNoWindow(p) ==
    /\ pc[p] = "findElection"
    /\ LET election == ElectionById(input[p].election_id) IN
         IF election = <<>>
         THEN Answered(p, NotFound)
         ELSE /\ pc' = [pc EXCEPT ![p] = "findVotes"]
              /\ UNCHANGED result
    /\ UNCHANGED <<dbvars, now, session, input, prior, ncalls, auxvars, nanoids>>
    /\ Forget

\* await findFirst(election); the NOT_FOUND and not-ongoing checks
VoteFindElection(p) ==
    /\ pc[p] = "findElection"
    /\ LET election == ElectionById(input[p].election_id) IN
         IF election = <<>>
         THEN Answered(p, NotFound)
         ELSE IF ~isElectionOngoing(election[1], now)
         THEN Answered(p, NotOngoing)
         ELSE /\ pc' = [pc EXCEPT ![p] = "findVotes"]
              /\ UNCHANGED result
    /\ UNCHANGED <<dbvars, now, session, input, prior, ncalls, auxvars, nanoids>>
    /\ Forget

\* await findMany(existingVotes); the already-voted check
VoteFindVotes(p) ==
    /\ pc[p] = "findVotes"
    /\ IF Len(ExistingVotes(session[p], input[p].election_id)) > 0
       THEN Answered(p, AlreadyVoted)
       ELSE /\ pc' = [pc EXCEPT ![p] = "insert"]
            /\ UNCHANGED result
    /\ UNCHANGED <<dbvars, now, session, input, prior, ncalls, auxvars, nanoids>>
    /\ Forget

VoteInsertThenCheck(p) ==
    /\ pc[p] = "insert"
    /\ LET rows == BallotRows(input[p], session[p]) IN
         IF Len(rows) = 0
         THEN /\ Answered(p, InsertError)
              /\ UNCHANGED votes
         ELSE /\ votes' = InsertValues(votes, rows)
              /\ Answered(p,
                    IF Len(ExistingVotes(session[p], input[p].election_id)) > 0
                    THEN AlreadyVoted ELSE OK)
    /\ UNCHANGED <<elections, commissioners, partylists, positions, candidates,
                   voters, now, session, input, prior, ncalls, auxvars,
                   nanoids>>
    /\ Forget

\* await db.insert(votes).values(...)
VoteInsert(p) ==
    /\ pc[p] = "insert"
    /\ LET rows == BallotRows(input[p], session[p]) IN
         IF Len(rows) = 0
         THEN /\ Answered(p, InsertError)
              /\ UNCHANGED votes
         ELSE /\ votes' = InsertValues(votes, rows)
              /\ Answered(p, OK)
    /\ UNCHANGED <<elections, commissioners, partylists, positions, candidates,
                   voters, now, session, input, prior, ncalls, auxvars,
                   nanoids>>
    /\ Forget

-----------------------------------------------------------------------------
(* electionRouter.getElectionPage: a query, a function of the store *)

getElectionPage(user, election_slug) ==
    LET election == FindFirst(elections, LAMBDA e :
                        e.slug = election_slug /\ e.deleted_at = NoDate)
    IN  IF election = <<>>
        THEN [code |-> "NOT_FOUND"]
        ELSE [code |-> "OK",
              election |-> election[1],
              isOngoing |-> isElectionOngoing(election[1], now),
              isImVoter |->
                  FindFirst(voters, LAMBDA v :
                      /\ v.election_id = election[1].id
                      /\ v.email = Email(user)
                      /\ v.deleted_at = NoDate) # <<>>,
              hasVoted |->
                  FindFirst(votes, LAMBDA v :
                      /\ v.voter_id = user
                      /\ v.election_id = election[1].id) # <<>>]

\* `vote` without the test that the election is ongoing
voteAnyTime(u, inp) ==
    LET election == ElectionById(inp.election_id)
        rows == BallotRows(inp, u)
    IN
    /\ election # <<>>
    /\ Len(ExistingVotes(u, election[1].id)) = 0
    /\ Len(rows) # 0
    /\ votes' = InsertValues(votes, rows)
    /\ UNCHANGED <<elections, commissioners, partylists, positions, candidates,
                   voters, now, reqvars, auxvars, nanoids>>
    /\ Forget

\* The whole `vote` handler served without another request in between, when
\* it answers with success; a rejected request leaves every table as it was
vote(u, inp) ==
    LET election == ElectionById(inp.election_id)
        rows == BallotRows(inp, u)
    IN
    /\ election # <<>>
    /\ isElectionOngoing(election[1], now)
    /\ Len(ExistingVotes(u, election[1].id)) = 0
    /\ Len(rows) # 0
    /\ votes' = InsertValues(votes, rows)
    /\ UNCHANGED <<elections, commissioners, partylists, positions, candidates,
                   voters, now, reqvars, auxvars, nanoids>>
    /\ Forget

-----------------------------------------------------------------------------
(* The relations the queries follow with `with: { votes: ... }`.  A vote    *)
(* row references its voter, its election and at most one of its candidate *)
(* and, for an abstention, its position.                                   *)

\* voter.votes
VoterVotes(voter) == SelectSeq(votes, LAMBDA v : v.voter_id = voter.id)

\* position.votes: the rows that reference the position
PositionVotes(position) ==
    SelectSeq(votes, LAMBDA v : v.position_id = position.id)

\* position.candidates
PositionCandidates(position) ==
    SelectSeq(candidates, LAMBDA c : c.position_id = position.id)

\* candidate.votes: the rows that reference the candidate
CandidateVotes(candidate) ==
    SelectSeq(votes, LAMBDA v : v.candidate_id = candidate.id)

\* candidate.partylist, columns: { acronym }
CandidatePartylist(candidate) ==
    IF candidate.partylist_id \in DOMAIN partylists
    THEN [acronym |-> partylists[candidate.partylist_id].acronym]
    ELSE [acronym |-> NULL]

\* first `n` rows of a result (limit: n)
Limit(rows, n) == SubSeq(rows, 1, IF Len(rows) < n THEN Len(rows) ELSE n)

-----------------------------------------------------------------------------
(* electionRouter.getVotersByElectionId: a query, a function of the store *)

getVotersByElectionId(election_id) ==
    LET votersOfElection ==
            SelectSeq(voters, LAMBDA v : v.election_id = election_id)
    IN  [i \in 1..Len(votersOfElection) |->
            LET voter == votersOfElection[i] IN
            [id |-> voter.id, email |-> voter.email,
             has_voted |-> Len(Limit(VoterVotes(voter), 1)) # 0]]

-----------------------------------------------------------------------------
(* electionRouter.getElectionRealtime *)

\* orderBy: asc(position.order); rows of equal order keep the table's order
RECURSIVE OrderByOrder(_)
OrderByOrder(rows) ==
    IF rows = <<>> THEN <<>>
    ELSE LET rest == OrderByOrder(SubSeq(rows, 1, Len(rows) - 1))
             x == rows[Len(rows)]
             k == Cardinality({i \in DOMAIN rest : rest[i].order <= x.order})
         IN  SubSeq(rest, 1, k) \o <<x>> \o SubSeq(rest, k + 1, Len(rest))

RECURSIVE SortByVotesTiesReversed(_)
SortByVotesTiesReversed(cs) ==
    IF cs = <<>> THEN <<>>
    ELSE LET rest == SortByVotesTiesReversed(SubSeq(cs, 1, Len(cs) - 1))
             x == cs[Len(cs)]
             k == Cardinality({i \in DOMAIN rest :
                                  Len(rest[i].votes) > Len(x.votes)})
         IN  SubSeq(rest, 1, k) \o <<x>> \o SubSeq(rest, k + 1, Len(rest))

\* candidates.sort((a, b) => b.votes.length - a.votes.length): Array.sort is
\* stable, so candidates of equal count keep the order of the query result
RECURSIVE SortByVotes(_)
SortByVotes(cs) ==
    IF cs = <<>> THEN <<>>
    ELSE LET rest == SortByVotes(SubSeq(cs, 1, Len(cs) - 1))
             x == cs[Len(cs)]
             k == Cardinality({i \in DOMAIN rest :
                                  Len(rest[i].votes) >= Len(x.votes)})
         IN  SubSeq(rest, 1, k) \o <<x>> \o SubSeq(rest, k + 1, Len(rest))

\* `Candidate ${index + 1}`, index counted from 0
CandidateLabels ==
    <<"Candidate 1", "Candidate 2", "Candidate 3", "Candidate 4",
      "Candidate 5", "Candidate 6">>

LastNameShown(candidate, ongoing) == candidate.last_name

\* last_name: isElectionOngoing({ election }) ? "" : candidate.last_name
LastName(candidate, ongoing) == IF ongoing THEN "" ELSE candidate.last_name

CandidateEntryCountHidden(candidate, index, ongoing) ==
    [id |-> candidate.id,
     first_name |-> IF ongoing THEN CandidateLabels[index + 1]
                    ELSE candidate.first_name,
     last_name |-> LastName(candidate, ongoing),
     middle_name |-> IF ongoing THEN "" ELSE candidate.middle_name,
     partylist |-> candidate.partylist,
     vote |-> IF ongoing THEN 0 ELSE Len(candidate.votes)]

\* the entry of one candidate of the sorted list
CandidateEntry(candidate, index, ongoing) ==
    [id |-> candidate.id,
     first_name |-> IF ongoing THEN CandidateLabels[index + 1]
                    ELSE candidate.first_name,
     last_name |-> LastName(candidate, ongoing),
     middle_name |-> IF ongoing THEN "" ELSE candidate.middle_name,
     partylist |-> candidate.partylist,
     vote |-> Len(candidate.votes)]

\* The entries labelled by their place in the query result, then sorted
CandidateEntriesLabelledFirst(cs, ongoing) ==
    LET labelled == [j \in 1..Len(cs) |->
                        [entry |-> CandidateEntry(cs[j], j - 1, ongoing),
                         votes |-> cs[j].votes]]
        sorted == SortByVotes(labelled)
    IN  [j \in 1..Len(sorted) |-> sorted[j].entry]

\* position.candidates.sort(...).map((candidate, index) => ...): the entries
\* of the candidates of a position, sorted and then labelled by their rank
CandidateEntries(cs, ongoing) ==
    LET sorted == SortByVotes(cs)
    IN  [j \in 1..Len(sorted) |-> CandidateEntry(sorted[j], j - 1, ongoing)]

\* the candidates of a position as the query returns them, with their
\* relations
CandidatesOf(position, election) ==
    LET rows == SelectSeq(PositionCandidates(position), LAMBDA c :
                    c.election_id = election.id /\ c.deleted_at = NoDate)
    IN  [i \in 1..Len(rows) |->
            [id |-> rows[i].id, first_name |-> rows[i].first_name,
             middle_name |-> rows[i].middle_name,
             last_name |-> rows[i].last_name,
             votes |-> CandidateVotes(rows[i]),
             partylist |-> CandidatePartylist(rows[i])]]

PositionsOfDeletedToo(election) ==
    SelectSeq(positions, LAMBDA p : p.election_id = election.id)

\* where: and(eq(position.election_id, election.id),
\* isNull(position.deleted_at))
PositionsOf(election) ==
    SelectSeq(positions, LAMBDA p :
        /\ p.election_id = election.id
        /\ p.deleted_at = NoDate)

\* the response for an election at clock t
getElectionRealtime(slug, t) ==
    LET election == FindFirst(elections, LAMBDA e :
                        e.slug = slug /\ e.deleted_at = NoDate)
    IN  IF election = <<>>
        THEN [code |-> "ERROR", out |-> <<>>]
        ELSE
        LET realtimeResult == OrderByOrder(PositionsOf(election[1]))
            ongoing == isElectionOngoing(election[1], t)
        IN  [code |-> "OK",
             out |->
               [i \in 1..Len(realtimeResult) |->
                  LET position == realtimeResult[i]
                  IN  [id |-> position.id,
                       name |-> position.name,
                       order |-> position.order,
                       votes |-> Len(PositionVotes(position)),
                       candidates |->
                          CandidateEntries(
                              CandidatesOf(position, election[1]),
                              ongoing)]]]

GetElectionRealtimeSortingTable(slug) ==
    /\ realtime' = [slug |-> slug, now |-> now,
                    again |-> realtime.slug = slug] @@
                        getElectionRealtime(slug, now)
    /\ LET sorted == SortByVotes(
                        [i \in DOMAIN candidates |->
                            [votes |-> CandidateVotes(candidates[i]),
                             row |-> candidates[i]]])
       IN  candidates' = [i \in DOMAIN sorted |-> sorted[i].row]
    /\ UNCHANGED <<elections, commissioners, partylists, positions, voters,
                   votes, now, reqvars, auxvars, nanoids>>

\* One getElectionRealtime query answered
GetElectionRealtime(slug) ==
    /\ realtime' = [slug |-> slug, now |-> now,
                    again |-> realtime.slug = slug] @@
                        getElectionRealtime(slug, now)
    /\ UNCHANGED <<dbvars, now, reqvars, auxvars, nanoids>>

-----------------------------------------------------------------------------
(* Administration *)

\* The caller is a commissioner of the election
IsCommissioner(u, election_id) ==
    FindFirst(commissioners, LAMBDA c :
        c.election_id = election_id /\ c.user_id = u) # <<>>

\* The errors the voter procedures throw
ElectionNotFound ==
    [code |-> "NOT_FOUND", message |-> "Election does not exists"]
Unauthorized == [code |-> "UNAUTHORIZED", message |-> "Unauthorized"]
EmailExists ==
    [code |-> "BAD_REQUEST", message |-> "Email is already a voter"]
VoterNotFound == [code |-> "NOT_FOUND", message |-> "Voter not found"]

\* electionRouter.createElection
createElection(u, slug, start_date, end_date, template) ==
    /\ slug \notin takenSlugs
    /\ FindFirst(elections, LAMBDA e : e.slug = slug) = <<>>
    /\ LET id == Len(elections) + 1
           names == positionTemplate(template)
           positionsInTemplate ==
               [i \in 1..Len(names) |->
                   [id |-> nanoid("position", i), name |-> names[i],
                    order |-> i - 1, election_id |-> id, min |-> 0,
                    max |-> 1, deleted_at |-> NoDate]]
       IN  /\ elections' = Append(elections,
                [id |-> id, slug |-> slug, start_date |-> start_date,
                 end_date |-> end_date, publicity |-> "PRIVATE",
                 deleted_at |-> NoDate])
           /\ commissioners' = Append(commissioners,
                [election_id |-> id, user_id |-> u])
           /\ partylists' = Append(partylists,
                [name |-> "Independent", acronym |-> "IND",
                 election_id |-> id, deleted_at |-> NoDate])
           /\ positions' =
                IF template # "none" /\ Len(positionsInTemplate) > 0
                THEN positions \o positionsInTemplate
                ELSE positions
           /\ nanoids' =
                IF template # "none" /\ Len(positionsInTemplate) > 0
                THEN [nanoids EXCEPT
                         !.position = @ + Len(positionsInTemplate)]
                ELSE nanoids
    /\ UNCHANGED <<candidates, voters, votes, now, reqvars, auxvars>>
    /\ Forget

-----------------------------------------------------------------------------
(* createElection of apps/www/actions.ts, the server action.  It awaits    *)
(* its inserts one after the other outside a transaction: each insert is   *)
(* committed when it returns.  `creating` holds the action in flight.      *)

\* The checks of the action, up to the first insert
ActionsCreateElectionBegin(u, inp) ==
    /\ creating = <<>>
    /\ inp.slug \notin takenSlugs
    /\ FindFirst(elections, LAMBDA e : e.slug = inp.slug) = <<>>
    /\ creating' = <<[stage |-> "election", user |-> u, id |-> 0,
                      slug |-> inp.slug, start_date |-> inp.start_date,
                      end_date |-> inp.end_date, template |-> inp.template]>>
    /\ UNCHANGED <<dbvars, now, reqvars, guard, edited, voterCall,
                   nanoids>>
    /\ Forget

\* await db.insert(elections); the slug column is unique
ActionsInsertElection ==
    /\ creating # <<>> /\ creating[1].stage = "election"
    /\ IF FindFirst(elections, LAMBDA e : e.slug = creating[1].slug) # <<>>
       THEN /\ creating' = <<>>
            /\ UNCHANGED elections
       ELSE /\ elections' = Append(elections,
                 [id |-> Len(elections) + 1, slug |-> creating[1].slug,
                  start_date |-> creating[1].start_date,
                  end_date |-> creating[1].end_date, publicity |-> "PRIVATE",
                  deleted_at |-> NoDate])
            /\ creating' = <<[creating[1] EXCEPT
                                 !.stage = "commissioner",
                                 !.id = Len(elections) + 1]>>
    /\ UNCHANGED <<commissioners, partylists, positions, candidates, voters,
                   votes, now, reqvars, guard, edited, voterCall,
                   nanoids>>
    /\ Forget

\* await db.insert(commissioners)
ActionsInsertCommissioner ==
    /\ creating # <<>> /\ creating[1].stage = "commissioner"
    /\ commissioners' = Append(commissioners,
          [election_id |-> creating[1].id, user_id |-> creating[1].user])
    /\ creating' = <<[creating[1] EXCEPT !.stage = "partylist"]>>
    /\ UNCHANGED <<elections, partylists, positions, candidates, voters,
                   votes, now, reqvars, guard, edited, voterCall,
                   nanoids>>
    /\ Forget

\* await db.insert(partylists)
ActionsInsertPartylist ==
    /\ creating # <<>> /\ creating[1].stage = "partylist"
    /\ partylists' = Append(partylists,
          [name |-> "Independent", acronym |-> "IND",
           election_id |-> creating[1].id, deleted_at |-> NoDate])
    /\ creating' = <<[creating[1] EXCEPT !.stage = "positions"]>>
    /\ UNCHANGED <<elections, commissioners, positions, candidates, voters,
                   votes, now, reqvars, guard, edited, voterCall,
                   nanoids>>
    /\ Forget

\* if (template !== 0) await db.insert(positions).values(... || []); an
\* insert of no values throws
ActionsInsertPositions ==
    /\ creating # <<>> /\ creating[1].stage = "positions"
    /\ LET names == positionTemplate(creating[1].template)
           rows == [i \in 1..Len(names) |->
                       [id |-> nanoid("position", i), name |-> names[i],
                        order |-> i - 1, election_id |-> creating[1].id,
                        min |-> 0, max |-> 1, deleted_at |-> NoDate]]
       IN  IF creating[1].template # "0" /\ Len(rows) > 0
           THEN /\ positions' = InsertValues(positions, rows)
                /\ nanoids' = [nanoids EXCEPT !.position = @ + Len(rows)]
           ELSE UNCHANGED <<positions, nanoids>>
    /\ creating' = <<>>
    /\ UNCHANGED <<elections, commissioners, partylists, candidates, voters,
                   votes, now, reqvars, guard, edited,
                   voterCall>>
    /\ Forget

\* The action stops between two awaits: the server process dies or the
\* connection to the database is lost
ActionsCreateElectionFails ==
    /\ creating # <<>>
    /\ creating[1].stage \in {"commissioner", "partylist", "positions"}
    /\ creating' = <<>>
    /\ UNCHANGED <<dbvars, now, reqvars, guard, edited, voterCall,
                   nanoids>>
    /\ Forget

-----------------------------------------------------------------------------
\* electionRouter.deleteElection
deleteElection(election_id) ==
    /\ commissioners' =
          Delete(commissioners, LAMBDA c : c.election_id = election_id)
    /\ elections' =
          Update(elections, LAMBDA e : e.id = election_id,
                 LAMBDA e : [e EXCEPT !.deleted_at = now])
    /\ UNCHANGED <<partylists, positions, candidates, voters, votes, now,
                   reqvars, auxvars, nanoids>>
    /\ Forget

\* createSingleVoter without the test of the caller's commissioner row
createSingleVoterAnyCaller(u, email, election_id) ==
    LET isElectionExists == ElectionById(election_id)
        answer(r) ==
            [election_id |-> election_id,
             commissioner |-> IsCommissioner(u, election_id), result |-> r]
    IN
    /\ IF isElectionExists = <<>>
       THEN /\ voterCall' = answer(ElectionNotFound)
            /\ UNCHANGED <<voters, nanoids>>
       ELSE IF FindFirst(voters, LAMBDA v :
                  v.election_id = election_id /\ v.email = email) # <<>>
       THEN /\ voterCall' = answer(EmailExists)
            /\ UNCHANGED <<voters, nanoids>>
       ELSE /\ nanoids.voter < MaxVoters
            /\ voterCall' = answer(OK)
            /\ voters' = Append(voters,
                  [id |-> nanoid("voter", 1), email |-> email,
                   election_id |-> isElectionExists[1].id,
                   deleted_at |-> NoDate])
            /\ nanoids' = [nanoids EXCEPT !.voter = @ + 1]
    /\ UNCHANGED <<elections, commissioners, partylists, positions, candidates,
                   votes, now, reqvars, guard, creating, edited>>
    /\ Forget

\* electionRouter.createSingleVoter
createSingleVoter(u, email, election_id) ==
    LET isElectionExists == ElectionById(election_id)
        answer(r) ==
            [election_id |-> election_id,
             commissioner |-> IsCommissioner(u, election_id), result |-> r]
    IN
    /\ IF isElectionExists = <<>>
       THEN /\ voterCall' = answer(ElectionNotFound)
            /\ UNCHANGED <<voters, nanoids>>
       ELSE IF ~\E i \in DOMAIN commissioners :
                  /\ commissioners[i].election_id = election_id
                  /\ commissioners[i].user_id = u
       THEN /\ voterCall' = answer(Unauthorized)
            /\ UNCHANGED <<voters, nanoids>>
       ELSE IF FindFirst(voters, LAMBDA v :
                  v.election_id = election_id /\ v.email = email) # <<>>
       THEN /\ voterCall' = answer(EmailExists)
            /\ UNCHANGED <<voters, nanoids>>
       ELSE /\ nanoids.voter < MaxVoters
            /\ voterCall' = answer(OK)
            /\ voters' = Append(voters,
                  [id |-> nanoid("voter", 1), email |-> email,
                   election_id |-> isElectionExists[1].id,
                   deleted_at |-> NoDate])
            /\ nanoids' = [nanoids EXCEPT !.voter = @ + 1]
    /\ UNCHANGED <<elections, commissioners, partylists, positions, candidates,
                   votes, now, reqvars, guard, creating, edited>>
    /\ Forget

\* electionRouter.createPosition; min and max are left to their defaults
createPosition(name, election_id) ==
    LET positionsInDB ==
            SelectSeq(positions, LAMBDA p : p.election_id = election_id)
    IN
    /\ nanoids.position < MaxPositions
    /\ positions' = Append(positions,
          [id |-> nanoid("position", 1), name |-> name,
           order |-> Len(positionsInDB), election_id |-> election_id,
           min |-> 0, max |-> 1, deleted_at |-> NoDate])
    /\ nanoids' = [nanoids EXCEPT !.position = @ + 1]
    /\ UNCHANGED <<elections, commissioners, partylists, candidates, voters,
                   votes, now, reqvars, auxvars>>
    /\ Forget

\* electionRouter.createSingleCandidate; the credential, platform,
\* affiliation and achievement rows of the candidate are left out
createSingleCandidate(inp) ==
    /\ FindFirst(candidates, LAMBDA c :
          c.slug = inp.slug /\ c.election_id = inp.election_id) = <<>>
    /\ nanoids.candidate < MaxCandidates
    /\ candidates' = Append(candidates,
          [id |-> nanoid("candidate", 1), slug |-> inp.slug,
           first_name |-> inp.first_name, middle_name |-> inp.middle_name,
           last_name |-> inp.last_name, election_id |-> inp.election_id,
           position_id |-> inp.position_id,
           partylist_id |-> inp.partylist_id, deleted_at |-> NoDate])
    /\ nanoids' = [nanoids EXCEPT !.candidate = @ + 1]
    /\ UNCHANGED <<elections, commissioners, partylists, positions, voters,
                   votes, now, reqvars, auxvars>>
    /\ Forget

\* electionRouter.editCandidate; the image, credential, platform, affiliation
\* and achievement rows of the candidate are left out.  The row that is
\* looked up by old_slug is not the row that is written: the update goes by
\* input.id.
editCandidate(inp) ==
    /\ inp.old_slug # inp.new_slug =>
          FindFirst(candidates, LAMBDA c :
              c.slug = inp.new_slug /\ c.election_id = inp.election_id) = <<>>
    /\ FindFirst(candidates, LAMBDA c :
          c.slug = inp.old_slug /\ c.election_id = inp.election_id) # <<>>
    /\ candidates' = Update(candidates,
          LAMBDA c : c.id = inp.id /\ c.election_id = inp.election_id,
          LAMBDA c : [c EXCEPT !.slug = inp.new_slug,
                               !.first_name = inp.first_name,
                               !.middle_name = inp.middle_name,
                               !.last_name = inp.last_name,
                               !.position_id = inp.position_id,
                               !.partylist_id = inp.partylist_id])
    /\ UNCHANGED <<elections, commissioners, partylists, positions, voters,
                   votes, now, reqvars, auxvars, nanoids>>
    /\ Forget

\* electionRouter.editElection; name, description and logo are left out.
\* The commissioner lookup has no condition on the election: it finds the
\* first election row, whoever its commissioners are.  The slug column is
\* unique, so an update to the slug of another row fails.
editElection(u, inp) ==
    /\ inp.newSlug # inp.oldSlug =>
          /\ inp.newSlug \notin takenSlugs
          /\ FindFirst(elections, LAMBDA e : e.slug = inp.newSlug) = <<>>
    /\ LET isElectionCommissionerExists ==
               FindFirst(elections, LAMBDA e : TRUE)
       IN  isElectionCommissionerExists # <<>>
    /\ \A i \in DOMAIN elections :
          elections[i].slug = inp.newSlug => elections[i].id = inp.id
    /\ elections' =
          Update(elections, LAMBDA e : e.id = inp.id,
                 LAMBDA e : [e EXCEPT !.slug = inp.newSlug,
                                      !.publicity = inp.publicity,
                                      !.start_date = inp.start_date,
                                      !.end_date = inp.end_date])
    /\ UNCHANGED <<commissioners, partylists, positions, candidates, voters,
                   votes, now, reqvars, auxvars, nanoids>>
    /\ Forget

\* electionRouter.createPartylist; the key of a partylist row is its place
\* in the table
createPartylist(name, acronym, election_id) ==
    /\ FindFirst(partylists, LAMBDA l :
          /\ l.election_id = election_id
          /\ l.acronym = acronym
          /\ l.deleted_at = NoDate) = <<>>
    /\ Len(partylists) < MaxPartylists
    /\ partylists' = Append(partylists,
          [name |-> name, acronym |-> acronym, election_id |-> election_id,
           deleted_at |-> NoDate])
    /\ UNCHANGED <<elections, commissioners, positions, candidates, voters,
                   votes, now, reqvars, auxvars, nanoids>>
    /\ Forget

\* The errors editPartylist throws
ReservedAcronym ==
    [code |-> "BAD_REQUEST", message |-> "IND is a reserved acronym"]
AcronymExists ==
    [code |-> "BAD_REQUEST", message |-> "Acronym is already exists"]

\* editPartylist without the test of the reserved acronym
editPartylistReservedAllowed(inp) ==
    /\ IF /\ inp.oldAcronym # inp.newAcronym
          /\ FindFirst(partylists, LAMBDA l :
                /\ l.election_id = inp.election_id
                /\ l.acronym = inp.newAcronym) # <<>>
       THEN /\ edited' = [newAcronym |-> inp.newAcronym, result |-> AcronymExists]
            /\ UNCHANGED partylists
       ELSE /\ edited' = [newAcronym |-> inp.newAcronym, result |-> OK]
            /\ partylists' =
                  [i \in DOMAIN partylists |->
                      IF i = inp.id
                      THEN [partylists[i] EXCEPT !.name = inp.name,
                                                 !.acronym = inp.newAcronym]
                      ELSE partylists[i]]
    /\ UNCHANGED <<elections, commissioners, positions, candidates, voters,
                   votes, now, reqvars, guard, creating, voterCall,
                   nanoids>>
    /\ Forget

\* electionRouter.editPartylist; description and logo_link are left out
editPartylist(inp) ==
    /\ IF inp.newAcronym = "IND"
       THEN /\ edited' = [newAcronym |-> inp.newAcronym,
                          result |-> ReservedAcronym]
            /\ UNCHANGED partylists
       ELSE IF /\ inp.oldAcronym # inp.newAcronym
               /\ FindFirst(partylists, LAMBDA l :
                     /\ l.election_id = inp.election_id
                     /\ l.acronym = inp.newAcronym) # <<>>
       THEN /\ edited' = [newAcronym |-> inp.newAcronym, result |-> AcronymExists]
            /\ UNCHANGED partylists
       ELSE /\ edited' = [newAcronym |-> inp.newAcronym, result |-> OK]
            /\ partylists' =
                  [i \in DOMAIN partylists |->
                      IF i = inp.id
                      THEN [partylists[i] EXCEPT !.name = inp.name,
                                                 !.acronym = inp.newAcronym]
                      ELSE partylists[i]]
    /\ UNCHANGED <<elections, commissioners, positions, candidates, voters,
                   votes, now, reqvars, guard, creating, voterCall,
                   nanoids>>
    /\ Forget

\* electionRouter.deletePartylist
deletePartylist(partylist_id, election_id) ==
    /\ partylists' =
          [i \in DOMAIN partylists |->
              IF i = partylist_id /\ partylists[i].election_id = election_id
              THEN [partylists[i] EXCEPT !.deleted_at = now]
              ELSE partylists[i]]
    /\ UNCHANGED <<elections, commissioners, positions, candidates, voters,
                   votes, now, reqvars, auxvars, nanoids>>
    /\ Forget

\* electionRouter.deleteCandidate
deleteCandidate(candidate_id, election_id) ==
    /\ candidates' =
          Delete(candidates, LAMBDA c :
              c.id = candidate_id /\ c.election_id = election_id)
    /\ UNCHANGED <<elections, commissioners, partylists, positions, voters,
                   votes, now, reqvars, auxvars, nanoids>>
    /\ Forget

\* electionRouter.deletePosition
deletePosition(position_id, election_id) ==
    /\ positions' =
          Update(positions, LAMBDA p :
                     p.id = position_id /\ p.election_id = election_id,
                 LAMBDA p : [p EXCEPT !.deleted_at = now])
    /\ UNCHANGED <<elections, commissioners, partylists, candidates, voters,
                   votes, now, reqvars, auxvars, nanoids>>
    /\ Forget

\* electionRouter.editPosition; description, min and max are left out
editPosition(inp) ==
    LET positionsInDB ==
            SelectSeq(positions, LAMBDA p :
                p.election_id = inp.election_id)
    IN
    /\ positions' =
          Update(positions, LAMBDA p :
                     p.id = inp.id /\ p.election_id = inp.election_id,
                 LAMBDA p : [p EXCEPT !.name = inp.name,
                                      !.order = Len(positionsInDB)])
    /\ UNCHANGED <<elections, commissioners, partylists, candidates, voters,
                   votes, now, reqvars, auxvars, nanoids>>
    /\ Forget

\* electionRouter.editVoter; the update goes by the id of the voter alone
editVoter(u, inp) ==
    LET answer(r) ==
            [election_id |-> inp.election_id,
             commissioner |-> IsCommissioner(u, inp.election_id),
             result |-> r]
    IN
    /\ IF ElectionById(inp.election_id) = <<>>
       THEN /\ voterCall' = answer(ElectionNotFound)
            /\ UNCHANGED voters
       ELSE IF ~IsCommissioner(u, inp.election_id)
       THEN /\ voterCall' = answer(Unauthorized)
            /\ UNCHANGED voters
       ELSE /\ voterCall' = answer(OK)
            /\ voters' = Update(voters, LAMBDA v : v.id = inp.id,
                                LAMBDA v : [v EXCEPT !.email = inp.email])
    /\ UNCHANGED <<elections, commissioners, partylists, positions, candidates,
                   votes, now, reqvars, guard, creating, edited, nanoids>>
    /\ Forget

deleteSingleVoterWithVotes(u, id, election_id) ==
    LET answer(r) ==
            [election_id |-> election_id,
             commissioner |-> IsCommissioner(u, election_id), result |-> r]
    IN
    /\ IF ElectionById(election_id) = <<>>
       THEN /\ voterCall' = answer(ElectionNotFound)
            /\ UNCHANGED <<voters, votes>>
       ELSE IF ~IsCommissioner(u, election_id)
       THEN /\ voterCall' = answer(Unauthorized)
            /\ UNCHANGED <<voters, votes>>
       ELSE IF FindFirst(voters, LAMBDA v :
                  v.id = id /\ v.election_id = election_id) = <<>>
       THEN /\ voterCall' = answer(VoterNotFound)
            /\ UNCHANGED <<voters, votes>>
       ELSE /\ voterCall' = answer(OK)
            /\ voters' = Delete(voters, LAMBDA v :
                              v.id = id /\ v.election_id = election_id)
            /\ votes' = Delete(votes, LAMBDA v : v.election_id = election_id)
    /\ UNCHANGED <<elections, commissioners, partylists, positions, candidates,
                   now, reqvars, guard, creating, edited, nanoids>>
    /\ Forget

\* electionRouter.deleteSingleVoter
deleteSingleVoter(u, id, election_id) ==
    LET answer(r) ==
            [election_id |-> election_id,
             commissioner |-> IsCommissioner(u, election_id), result |-> r]
    IN
    /\ IF ElectionById(election_id) = <<>>
       THEN /\ voterCall' = answer(ElectionNotFound)
            /\ UNCHANGED voters
       ELSE IF ~IsCommissioner(u, election_id)
       THEN /\ voterCall' = answer(Unauthorized)
            /\ UNCHANGED voters
       ELSE IF FindFirst(voters, LAMBDA v :
                  v.id = id /\ v.election_id = election_id) = <<>>
       THEN /\ voterCall' = answer(VoterNotFound)
            /\ UNCHANGED voters
       ELSE /\ voterCall' = answer(OK)
            /\ voters' = Delete(voters, LAMBDA v :
                              v.id = id /\ v.election_id = election_id)
    /\ UNCHANGED <<elections, commissioners, partylists, positions, candidates,
                   votes, now, reqvars, guard, creating, edited, nanoids>>
    /\ Forget

\* electionRouter.deleteBulkVoter; `ids` are the ids of input.voters
deleteBulkVoter(election_id, ids) ==
    /\ voters' = IF ids # {}
                 THEN Delete(voters, LAMBDA v :
                          v.election_id = election_id /\ v.id \in ids)
                 ELSE voters
    /\ UNCHANGED <<elections, commissioners, partylists, positions, candidates,
                   votes, now, reqvars, auxvars, nanoids>>
    /\ Forget

\* The clock advances
Tick ==
    /\ now < MaxTime
    /\ now' = now + 1
    /\ UNCHANGED <<dbvars, reqvars, auxvars, nanoids>>
    /\ Forget

-----------------------------------------------------------------------------
(* Specifications *)

NoGuard == [election |-> <<>>, now |-> 0, done |-> FALSE, out |-> FALSE]

InitStore ==
    /\ elections = <<>>
    /\ commissioners = <<>>
    /\ partylists = <<>>
    /\ positions = <<>>
    /\ voters = <<>>
    /\ votes = <<>>
    /\ now = 0
    /\ pc = [p \in Procs |-> "idle"]
    /\ session = [p \in Procs |-> NULL]
    /\ input = [p \in Procs |-> NoInput]
    /\ result = [p \in Procs |-> NoResult]
    /\ prior = [p \in Procs |-> FALSE]
    /\ ncalls = 0
    /\ candidates = <<>>
    /\ nanoids = [position |-> 0, candidate |-> 0, voter |-> 0]
    /\ realtime = NoRealtime
    /\ creating = <<>>
    /\ edited = NoEdit
    /\ voterCall = NoCall

Init == InitStore /\ guard = NoGuard

\* The window every election of these behaviours is created with
Window == [start_date |-> 1, end_date |-> 2]

Admin ==
    \/ \E u \in Users, slug \in Slugs \cup {"api"} :
          createElection(u, slug, Window.start_date, Window.end_date, "none")
    \/ \E e \in ElectionIds : deleteElection(e)
    \/ \E u \in Users, email \in Emails, e \in ElectionIds :
          /\ IsCommissioner(u, e)
          /\ FindFirst(voters, LAMBDA v :
                v.election_id = e /\ v.email = email) = <<>>
          /\ createSingleVoter(u, email, e)
    \/ Tick

VoteSteps ==
    \/ \E p \in Procs : VoteFindElection(p)
    \/ \E p \in Procs : VoteFindVotes(p)
    \/ \E p \in Procs : VoteInsert(p)

\* Requests are served concurrently: the handlers interleave at each await
Next ==
    \/ \E p \in Procs, u \in Users, e \in ElectionIds, b \in Ballots :
          VoteBegin(p, u, [election_id |-> e, votes |-> b])
    \/ VoteSteps
    \/ Admin

Spec == Init /\ [][Next]_vars

\* Requests are served one after the other: a request arrives only when no
\* other is being served; request k is served in slot ((k-1) mod 2) + 1
SeqVoteBegin(u, inp) ==
    /\ \A q \in Procs : pc[q] \in {"idle", "done"}
    /\ VoteBegin((ncalls % 2) + 1, u, inp)

NextSeq ==
    \/ \E u \in Users, e \in ElectionIds, b \in Ballots :
          SeqVoteBegin(u, [election_id |-> e, votes |-> b])
    \/ VoteSteps
    \/ Admin

SpecSeq == Init /\ [][NextSeq]_vars

\* The people who stand as candidates
Persons ==
    {[slug |-> "ann", first_name |-> "Ann", middle_name |-> NULL,
      last_name |-> "Abad"],
     [slug |-> "ben", first_name |-> "Ben", middle_name |-> "B",
      last_name |-> "Cruz"],
     [slug |-> "cy", first_name |-> "Cy", middle_name |-> "C",
      last_name |-> "Diaz"]}

\* The ballots cast while results are read
TallyBallots ==
    {<<[position_id |-> "p1", votes |-> <<"c1", "c2", "c3">>]>>,
     <<[position_id |-> "p1", votes |-> <<"c2", "c3">>]>>,
     <<[position_id |-> "p1", votes |-> <<"abstain">>],
       [position_id |-> "p2", votes |-> <<"c3">>]>>}

\* An election is set up, ballots are cast one request after the other, and
\* the results are read at any time
NextTally ==
    \/ \E slug \in Slugs :
          createElection("u1", slug, Window.start_date, Window.end_date,
                         "none")
    \/ \E e \in ElectionIds : createPosition("President", e)
    \/ \E person \in Persons, e \in ElectionIds,
          i \in DOMAIN positions, l \in DOMAIN partylists :
          createSingleCandidate(
              person @@ [election_id |-> e, position_id |-> positions[i].id,
                         partylist_id |-> l])
    \/ \E u \in Users, e \in ElectionIds, b \in TallyBallots :
          vote(u, [election_id |-> e, votes |-> b])
    \/ Tick
    \/ \E slug \in Slugs : GetElectionRealtime(slug)

SpecTally == Init /\ [][NextTally]_vars

\* The ballot cast while the election is administered
AdminBallot ==
    <<[position_id |-> "p1", votes |-> <<"c1">>],
      [position_id |-> "p2", votes |-> <<"abstain">>]>>

\* The window of the election that is administered while it is ongoing
AdminWindow == [start_date |-> 0, end_date |-> 1]

\* Every operation of the router on the rows of one election, with ballots
\* cast one request after the other; the clock stands still
\* The rows made so far in the tables of the election's parts
AdminRows ==
    nanoids.position + nanoids.candidate + nanoids.voter + Len(partylists)

NextAdmin ==
    \/ createElection("u1", "s1", AdminWindow.start_date,
                      AdminWindow.end_date, "none")
    \/ \E e \in DOMAIN elections :
          editElection("u1",
              [id |-> elections[e].id, oldSlug |-> elections[e].slug,
               newSlug |-> "s2", publicity |-> "PUBLIC",
               start_date |-> elections[e].start_date,
               end_date |-> elections[e].end_date])
    \/ \E e \in ElectionIds : deleteElection(e)
    \/ \E e \in ElectionIds :
          /\ AdminRows < MaxAdminRows
          /\ createPartylist("Alpha", "A", e)
    \/ \E l \in DOMAIN partylists :
          editPartylist(
              [id |-> l, name |-> "Beta", oldAcronym |-> partylists[l].acronym,
               newAcronym |-> "B", election_id |-> partylists[l].election_id])
    \/ \E l \in DOMAIN partylists :
          deletePartylist(l, partylists[l].election_id)
    \/ \E e \in ElectionIds :
          /\ AdminRows < MaxAdminRows
          /\ createPosition("President", e)
    \/ \E i \in DOMAIN positions :
          editPosition([id |-> positions[i].id, name |-> "Chair",
                        election_id |-> positions[i].election_id])
    \/ \E i \in DOMAIN positions :
          deletePosition(positions[i].id, positions[i].election_id)
    \/ \E person \in {r \in Persons : r.slug = "ann"}, e \in ElectionIds,
          i \in DOMAIN positions, l \in {1} :
          /\ AdminRows < MaxAdminRows
          /\ createSingleCandidate(
                person @@ [election_id |-> e, position_id |-> positions[i].id,
                           partylist_id |-> l])
    \/ \E i \in DOMAIN candidates :
          deleteCandidate(candidates[i].id, candidates[i].election_id)
    \/ \E email \in {Email("u2")}, e \in ElectionIds :
          /\ AdminRows < MaxAdminRows
          /\ IsCommissioner("u1", e)
          /\ FindFirst(voters, LAMBDA v :
                v.election_id = e /\ v.email = email) = <<>>
          /\ createSingleVoter("u1", email, e)
    \/ \E i \in DOMAIN voters, email \in {Email("u1")} :
          editVoter("u1", [id |-> voters[i].id, email |-> email,
                           election_id |-> voters[i].election_id])
    \/ \E i \in DOMAIN voters :
          deleteSingleVoter("u1", voters[i].id, voters[i].election_id)
    \/ \E e \in ElectionIds :
          vote("u2", [election_id |-> e, votes |-> AdminBallot])

SpecAdmin == Init /\ [][NextAdmin]_vars

\* The slugs, dates and templates elections are created and edited with
CreateSlugs == {"s1", "s2"}
Dates == 0..MaxDate
ActionTemplates == {"0", "1", "9"}

\* Elections are created through the router and through the server action,
\* and edited through the router
NextCreate ==
    \/ \E slug \in CreateSlugs, start_date, end_date \in Dates :
          createElection("u1", slug, start_date, end_date, "none")
    \/ \E slug \in CreateSlugs, template \in ActionTemplates :
          ActionsCreateElectionBegin("u1",
              [slug |-> slug, start_date |-> Window.start_date,
               end_date |-> Window.end_date, template |-> template])
    \/ ActionsInsertElection
    \/ ActionsInsertCommissioner
    \/ ActionsInsertPartylist
    \/ ActionsInsertPositions
    \/ ActionsCreateElectionFails
    \/ \E u \in Users, e \in DOMAIN elections, start_date, end_date \in Dates :
          editElection(u,
              [id |-> elections[e].id, oldSlug |-> elections[e].slug,
               newSlug |-> elections[e].slug,
               publicity |-> elections[e].publicity,
               start_date |-> start_date, end_date |-> end_date])

SpecCreate == Init /\ [][NextCreate]_vars

\* Elections are created and edited through the router; the client sends
\* any oldSlug and newSlug with an edit
NextSlugs ==
    \/ \E u \in Users, slug \in CreateSlugs \cup {"api"} :
          createElection(u, slug, Window.start_date, Window.end_date, "none")
    \/ \E u \in Users, e \in DOMAIN elections,
          oldSlug, newSlug \in CreateSlugs \cup {"api"},
          publicity \in {"PRIVATE", "PUBLIC"} :
          editElection(u,
              [id |-> elections[e].id, oldSlug |-> oldSlug,
               newSlug |-> newSlug, publicity |-> publicity,
               start_date |-> elections[e].start_date,
               end_date |-> elections[e].end_date])

SpecSlugs == Init /\ [][NextSlugs]_vars

\* The acronyms partylists are created and edited with
Acronyms == {"A", "B", "IND"}

\* The partylists of an election are created, edited and deleted; the old
\* acronym of an edit is the client's
NextPartylist ==
    \/ createElection("u1", "s1", Window.start_date, Window.end_date, "none")
    \/ \E e \in ElectionIds : deleteElection(e)
    \/ \E acronym \in Acronyms, e \in DOMAIN elections :
          createPartylist("Alpha", acronym, elections[e].id)
    \/ \E l \in DOMAIN partylists, oldAcronym, newAcronym \in Acronyms :
          editPartylist(
              [id |-> l, name |-> "Beta", oldAcronym |-> oldAcronym,
               newAcronym |-> newAcronym,
               election_id |-> partylists[l].election_id])
    \/ \E l \in DOMAIN partylists :
          deletePartylist(l, partylists[l].election_id)

SpecPartylist == Init /\ [][NextPartylist]_vars

\* The slugs candidates are created and edited with
CandidateSlugs == {"ann", "ben"}

\* The candidates of an election are created, edited and deleted; the old
\* slug of an edit is the client's
NextCandidate ==
    \/ createElection("u1", "s1", Window.start_date, Window.end_date, "none")
    \/ \E e \in DOMAIN elections : createPosition("President", elections[e].id)
    \/ \E person \in {r \in Persons : r.slug \in CandidateSlugs},
          i \in DOMAIN positions :
          createSingleCandidate(
              person @@ [election_id |-> positions[i].election_id,
                         position_id |-> positions[i].id, partylist_id |-> 1])
    \/ \E c \in DOMAIN candidates, old_slug, new_slug \in CandidateSlugs :
          editCandidate(
              [id |-> candidates[c].id, old_slug |-> old_slug,
               new_slug |-> new_slug, first_name |-> candidates[c].first_name,
               middle_name |-> candidates[c].middle_name,
               last_name |-> candidates[c].last_name,
               election_id |-> candidates[c].election_id,
               position_id |-> candidates[c].position_id,
               partylist_id |-> candidates[c].partylist_id])
    \/ \E c \in DOMAIN candidates :
          deleteCandidate(candidates[c].id, candidates[c].election_id)

SpecCandidate == Init /\ [][NextCandidate]_vars

\* The election ids voter calls are made with: those of the elections, and
\* one that no election has
AskedElections == 1..(Len(elections) + 1)

\* The voters of an election are registered, edited and deleted
NextVoter ==
    \/ \E u \in Users, slug \in CreateSlugs :
          createElection(u, slug, Window.start_date, Window.end_date, "none")
    \/ \E u \in Users, email \in Emails, e \in AskedElections :
          createSingleVoter(u, email, e)
    \/ \E u \in Users, v \in DOMAIN voters, email \in Emails,
          e \in AskedElections :
          editVoter(u, [id |-> voters[v].id, email |-> email,
                        election_id |-> e])
    \/ \E u \in Users, v \in DOMAIN voters, e \in AskedElections :
          deleteSingleVoter(u, voters[v].id, e)
    \/ \E e \in DOMAIN elections,
          ids \in SUBSET {voters[v].id : v \in DOMAIN voters} :
          deleteBulkVoter(elections[e].id, ids)

SpecVoter == Init /\ [][NextVoter]_vars

\* The positions of an election are made from a template or one by one,
\* edited and deleted; the edits and deletes go to the first rows of the
\* table
NextPosition ==
    \/ \E template \in {"none", "1"} :
          createElection("u1", "s1", Window.start_date, Window.end_date,
                         template)
    \/ \E e \in DOMAIN elections : createPosition("President", elections[e].id)
    \/ \E i \in DOMAIN positions, name \in {"Chair", "Dean"} :
          /\ i <= MaxPositions + 1
          /\ editPosition([id |-> positions[i].id, name |-> name,
                           election_id |-> positions[i].election_id])
    \/ \E i \in DOMAIN positions :
          /\ i <= MaxPositions + 1
          /\ deletePosition(positions[i].id, positions[i].election_id)

SpecPosition == Init /\ [][NextPosition]_vars

\* An election is set up and taken down while its results are read
NextRead ==
    \/ \E slug \in Slugs :
          createElection("u1", slug, Window.start_date, Window.end_date,
                         "none")
    \/ \E e \in DOMAIN elections : deleteElection(elections[e].id)
    \/ \E e \in DOMAIN elections : createPosition("President", elections[e].id)
    \/ \E i \in DOMAIN positions :
          deletePosition(positions[i].id, positions[i].election_id)
    \/ \E person \in {r \in Persons : r.slug \in CandidateSlugs},
          i \in DOMAIN positions :
          createSingleCandidate(
              person @@ [election_id |-> positions[i].election_id,
                         position_id |-> positions[i].id, partylist_id |-> 1])
    \/ \E c \in DOMAIN candidates :
          deleteCandidate(candidates[c].id, candidates[c].election_id)
    \/ \E slug \in Slugs : GetElectionRealtime(slug)

SpecRead == Init /\ [][NextRead]_vars

\* The user who makes no election and is a commissioner of none
Stranger == "u2"

\* Elections are made by one user and edited by another
NextStranger ==
    \/ \E slug \in CreateSlugs :
          createElection("u1", slug, Window.start_date, Window.end_date,
                         "none")
    \/ \E e \in DOMAIN elections, newSlug \in CreateSlugs \cup {"s3"},
          publicity \in {"PRIVATE", "PUBLIC"}, start_date, end_date \in Dates :
          editElection(Stranger,
              [id |-> elections[e].id, oldSlug |-> elections[e].slug,
               newSlug |-> newSlug, publicity |-> publicity,
               start_date |-> start_date, end_date |-> end_date])

SpecStranger == Init /\ [][NextStranger]_vars

\* The ballots cast with selections no handler has checked: one candidate
\* twice, two candidates for one position, one candidate, an abstention
CastBallots ==
    {<<[position_id |-> "p1", votes |-> <<"c1", "c1">>]>>,
     <<[position_id |-> "p1", votes |-> <<"c1", "c2">>]>>,
     <<[position_id |-> "p1", votes |-> <<"c1">>]>>,
     <<[position_id |-> "p1", votes |-> <<"abstain">>]>>}

\* An election is set up, its candidates and positions are edited and
\* deleted, and ballots are cast one request after the other; candidates are
\* made for the first position and moved by edits; the clock stands still
\* in the window
NextBallot ==
    \/ createElection("u1", "s1", AdminWindow.start_date,
                      AdminWindow.end_date, "none")
    \/ \E e \in DOMAIN elections : createPosition("President", elections[e].id)
    \/ \E person \in {r \in Persons : r.slug \in CandidateSlugs},
          i \in DOMAIN positions \cap {1} :
          createSingleCandidate(
              person @@ [election_id |-> positions[i].election_id,
                         position_id |-> positions[i].id, partylist_id |-> 1])
    \/ \E c \in DOMAIN candidates, i \in DOMAIN positions :
          editCandidate(
              [id |-> candidates[c].id, old_slug |-> candidates[c].slug,
               new_slug |-> candidates[c].slug,
               first_name |-> candidates[c].first_name,
               middle_name |-> candidates[c].middle_name,
               last_name |-> candidates[c].last_name,
               election_id |-> candidates[c].election_id,
               position_id |-> positions[i].id,
               partylist_id |-> candidates[c].partylist_id])
    \/ \E c \in DOMAIN candidates :
          deleteCandidate(candidates[c].id, candidates[c].election_id)
    \/ \E i \in DOMAIN positions :
          deletePosition(positions[i].id, positions[i].election_id)
    \/ \E u \in Users, e \in DOMAIN elections, b \in CastBallots :
          vote(u, [election_id |-> elections[e].id, votes |-> b])

SpecBallot == Init /\ [][NextBallot]_vars

\* The inputs of the isElectionOngoing evaluations
GuardElections ==
    {[start_date |-> 2, end_date |-> e, voting_start |-> h[1],
      voting_end |-> h[2]] :
        e \in {2, 28}, h \in {<<NoDate, NoDate>>, <<1, 3>>, <<0, 23>>}}

InitGuard ==
    /\ InitStore
    /\ guard \in {[election |-> <<e>>, now |-> t, done |-> FALSE,
                   out |-> FALSE] : e \in GuardElections, t \in 0..GuardMaxTime}

\* One evaluation of isElectionOngoing
EvalGuard ==
    /\ ~guard.done
    /\ guard' = [guard EXCEPT
                    !.done = TRUE,
                    !.out = isElectionOngoing(guard.election[1], guard.now)]
    /\ UNCHANGED <<dbvars, now, reqvars, nanoids, realtime, creating, edited,
                   voterCall>>

NextGuard == EvalGuard

SpecGuard == InitGuard /\ [][NextGuard]_vars

-----------------------------------------------------------------------------
(* Properties *)

\* The caller and the election of the request in slot p
SameVoterElection(p, q) ==
    /\ session[p] = session[q]
    /\ input[p].election_id = input[q].election_id

\* The guard of the request in slot p found its election and found it ongoing
PassedGuard(p) ==
    /\ pc[p] = "done"
    /\ result[p] \notin {NotFound, NotOngoing}

\* The request in slot p is answered in this step
AnsweredNow(p) == result[p] = NoResult /\ result'[p] # NoResult

\* The selections of a ballot in order, each with the position of its entry
Selections(ballot) ==
    Flat([k \in 1..Len(ballot) |->
            [j \in 1..Len(ballot[k].votes) |->
                [position_id |-> ballot[k].position_id,
                 selection |-> ballot[k].votes[j]]]])

\* Some row of the vote table is a row of this caller in this election
HasRow(voter_id, election_id) ==
    \E i \in DOMAIN votes :
        votes[i].voter_id = voter_id /\ votes[i].election_id = election_id

\* C1 (as claimed, for requests served one after the other as in SpecSeq):
\* when the first two vote requests of a run come from the same caller for
\* the same election, and both find the election ongoing, the first succeeds, the
\* second is answered AlreadyVoted, and the caller's rows are those of the
\* first ballot.
C1_TwiceSucceedsOnce ==
    ( /\ ncalls = 2
      /\ PassedGuard(1)
      /\ PassedGuard(2)
      /\ SameVoterElection(1, 2) )
    => /\ result[1] = OK
       /\ result[2] = AlreadyVoted
       /\ SelectSeq(votes, LAMBDA v :
             v.voter_id = session[1] /\ v.election_id = input[1].election_id)
          = BallotRows(input[1], session[1])

\* C2 (as claimed): no two vote requests of the same caller for the same
\* election both succeed, however the two handlers interleave.
C2_AtMostOneSucceeds ==
    \A p, q \in Procs :
        ( /\ p # q
          /\ pc[p] = "done" /\ result[p] = OK
          /\ pc[q] = "done" /\ result[q] = OK )
        => ~SameVoterElection(p, q)

RECURSIVE WholeBallots(_)
\* The table is a concatenation of complete ballots
WholeBallots(table) ==
    \/ table = <<>>
    \/ \E u \in Users, e \in ElectionIds, b \in Ballots :
          LET rows == BallotRows([election_id |-> e, votes |-> b], u)
          IN  /\ rows # <<>>
              /\ Len(rows) <= Len(table)
              /\ SubSeq(table, 1, Len(rows)) = rows
              /\ WholeBallots(SubSeq(table, Len(rows) + 1, Len(table)))

\* C3: in every reachable state the vote table consists of complete ballots
\* only (a reader never sees some rows of a ballot without the others), and a
\* ballot answered with success has all its rows in the table, in one piece.
C3_BallotAtomic ==
    /\ WholeBallots(votes)
    /\ \A p \in Procs :
          (pc[p] = "done" /\ result[p] = OK) =>
              \E k \in 0..Len(votes) :
                  LET sels == Selections(input[p].votes) IN
                  /\ k + Len(sels) <= Len(votes)
                  /\ \A i \in 1..Len(sels) :
                        /\ votes[k + i].voter_id = session[p]
                        /\ votes[k + i].election_id = input[p].election_id
                        /\ \/ votes[k + i].candidate_id = sels[i].selection
                           \/ /\ sels[i].selection = "abstain"
                              /\ votes[k + i].position_id = sels[i].position_id

\* C3 witness: a ballot of two selections was answered with success
C3_Witness ==
    \E p \in Procs :
        /\ pc[p] = "done" /\ result[p] = OK
        /\ input[p].votes = BallotTwo
        /\ Len(votes) >= 2

\* C4: a vote request answered with an error leaves the vote table as it was.
C4_ErrorAddsNoRows ==
    [][\A p \in Procs :
          (AnsweredNow(p) /\ result'[p] # OK) => votes' = votes]_vars

\* C4 witness: a request of a caller who had voted was answered AlreadyVoted
C4_Witness ==
    \E p \in Procs :
        /\ pc[p] = "done" /\ result[p] = AlreadyVoted
        /\ HasRow(session[p], input[p].election_id)

\* C5: a successful vote request adds exactly one row per selection, in
\* order, after the rows already there: an "abstain" selection gives a row
\* with the position_id of its entry and no candidate_id, any other selection
\* a row with that candidate_id and no position_id; each row has the caller's
\* id and the election_id of the input.
C5_RowsOfBallot ==
    [][\A p \in Procs :
          (AnsweredNow(p) /\ result'[p] = OK) =>
              LET sels == Selections(input[p].votes)
                  old == Len(votes)
              IN  /\ Len(sels) > 0
                  /\ Len(votes') = old + Len(sels)
                  /\ SubSeq(votes', 1, old) = votes
                  /\ \A i \in 1..Len(sels) :
                        /\ votes'[old + i].voter_id = session[p]
                        /\ votes'[old + i].election_id = input[p].election_id
                        /\ IF sels[i].selection = "abstain"
                           THEN /\ votes'[old + i].position_id
                                      = sels[i].position_id
                                /\ votes'[old + i].candidate_id = NULL
                           ELSE /\ votes'[old + i].candidate_id
                                      = sels[i].selection
                                /\ votes'[old + i].position_id = NULL]_vars

\* C5 witness: the ballot with a candidate selection and an abstention was
\* recorded as a candidate row followed by an abstain row
C5_Witness ==
    \E p \in Procs, i \in DOMAIN votes :
        /\ pc[p] = "done" /\ result[p] = OK
        /\ input[p].votes = BallotTwo
        /\ i + 1 \in DOMAIN votes
        /\ votes[i].candidate_id = "c1" /\ votes[i].position_id = NULL
        /\ votes[i + 1].candidate_id = NULL /\ votes[i + 1].position_id = "p2"

\* C6: when the handler evaluates its guard for an election that exists
\* while the clock is outside [start_date, end_date], the request is answered
\* NotOngoing and the vote table is unchanged, whatever the ballot and whether
\* or not the caller has rows in the table.
C6_OutsideWindowNotOngoing ==
    [][\A p \in Procs :
          ( /\ pc[p] = "findElection"
            /\ pc'[p] # "findElection"
            /\ \E i \in DOMAIN elections :
                  /\ elections[i].id = input[p].election_id
                  /\ ~( /\ elections[i].start_date <= now
                        /\ now <= elections[i].end_date ) )
          => /\ pc'[p] = "done"
             /\ result'[p] = NotOngoing
             /\ votes' = votes]_vars

\* C6 witness: a caller who has voted is answered NotOngoing after the window
C6_Witness ==
    \E p \in Procs :
        /\ pc[p] = "done" /\ result[p] = NotOngoing
        /\ HasRow(session[p], input[p].election_id)
        /\ input[p].votes # BallotNoSelection
        /\ now > Window.end_date

C8_DeletedElectionNotFound ==
    [][\A p \in Procs :
          ( /\ pc[p] = "findElection"
            /\ pc'[p] # "findElection"
            /\ ~\E i \in DOMAIN elections :
                  /\ elections[i].id = input[p].election_id
                  /\ elections[i].deleted_at = NoDate )
          => /\ pc'[p] = "done"
             /\ result'[p] = NotFound
             /\ votes' = votes]_vars

\* C9 (as claimed): every row added to the vote table is a row of a caller
\* who, when the row is written, is a registered (non-deleted) voter of the
\* row's election.
C9_OnlyRegisteredVoters ==
    [][\A i \in DOMAIN votes' :
          i > Len(votes) =>
              \E j \in DOMAIN voters :
                  /\ voters[j].election_id = votes'[i].election_id
                  /\ voters[j].email = Email(votes'[i].voter_id)
                  /\ voters[j].deleted_at = NoDate]_vars

\* C10: once a vote request of a caller for an election was answered with
\* success, the caller has a row in the vote table, every getElectionPage by
\* the caller that returns that election reports hasVoted = true, and every
\* request of the caller for the election that arrives afterwards is
\* rejected.
C10_HasVotedAfterSuccess ==
    \A p \in Procs :
        /\ (pc[p] = "done" /\ result[p] = OK) =>
              /\ HasRow(session[p], input[p].election_id)
              /\ \A slug \in Slugs :
                    LET page == getElectionPage(session[p], slug) IN
                    ( /\ page.code = "OK"
                      /\ page.election.id = input[p].election_id )
                    => page.hasVoted
        /\ (pc[p] = "done" /\ prior[p]) =>
              result[p] \in {NotFound, NotOngoing, AlreadyVoted}

\* C10 witness: after a success with a ballot that has a position without
\* selections, the page reports hasVoted and the caller's next request was
\* answered AlreadyVoted
C10_Witness ==
    \E p, q \in Procs :
        /\ p # q
        /\ pc[p] = "done" /\ result[p] = OK /\ input[p].votes = BallotOne
        /\ pc[q] = "done" /\ prior[q] /\ result[q] = AlreadyVoted
        /\ SameVoterElection(p, q)
        /\ \E slug \in Slugs : LET page == getElectionPage(session[p], slug)
                               IN  page.code = "OK" /\ page.hasVoted

\* C11 (as claimed): every entry of getVotersByElectionId reports
\* has_voted = true exactly when the person registered under the entry's
\* email has a row in the vote table for that election, stored under the
\* person's session user id.
C11_HasVotedOfVoterList ==
    \A e \in DOMAIN elections :
        LET list == getVotersByElectionId(elections[e].id) IN
        \A i \in DOMAIN list :
            list[i].has_voted <=>
                \E u \in Users : /\ Email(u) = list[i].email
                                 /\ HasRow(u, elections[e].id)

\* The rows of the vote table that satisfy a condition
Count(Where(_)) == Cardinality({i \in DOMAIN votes : Where(votes[i])})

\* The candidate rows of a position
CandidateIdsOf(position_id) ==
    {candidates[i].id : i \in {j \in DOMAIN candidates :
                                  candidates[j].position_id = position_id}}

\* C13 (as claimed): the total of every position returned by
\* getElectionRealtime is the number of abstain rows of the position plus
\* the number of vote rows for the candidates of the position.
C13_PositionTotal ==
    \A slug \in Slugs :
        LET res == getElectionRealtime(slug, now) IN
        res.code = "OK" =>
            \A i \in DOMAIN res.out :
                res.out[i].votes =
                    Count(LAMBDA v : /\ v.position_id = res.out[i].id
                                     /\ v.candidate_id = NULL)
                    + Count(LAMBDA v :
                          v.candidate_id \in CandidateIdsOf(res.out[i].id))

\* The election a remembered response is about
RealtimeElection ==
    FindFirst(elections, LAMBDA e :
        e.slug = realtime.slug /\ e.deleted_at = NoDate)[1]

\* The election was ongoing when the remembered response was computed
RealtimeOngoing == isElectionOngoing(RealtimeElection, realtime.now)

\* The counts of a response: per position its total, per candidate its count
Counts(out) ==
    [i \in DOMAIN out |->
        [id |-> out[i].id, votes |-> out[i].votes,
         candidates |-> [j \in DOMAIN out[i].candidates |->
                            [id |-> out[i].candidates[j].id,
                             vote |-> out[i].candidates[j].vote]]]]

\* C14: in every response of getElectionRealtime, the count of a candidate
\* entry is the number of vote rows whose candidate_id is the candidate's
\* id, and the counts are those the query returns at any other hour, with
\* the election ongoing or not.
C14_CandidateCount ==
    realtime.code = "OK" =>
        /\ \A i \in DOMAIN realtime.out :
              \A j \in DOMAIN realtime.out[i].candidates :
                 LET entry == realtime.out[i].candidates[j] IN
                 entry.vote = Count(LAMBDA v : v.candidate_id = entry.id)
        /\ \A t \in 0..MaxTime :
              Counts(getElectionRealtime(realtime.slug, t).out)
                  = Counts(realtime.out)

\* C14 witness: a response computed while the election was ongoing lists a
\* candidate with two votes
C14_Witness ==
    /\ realtime.code = "OK"
    /\ RealtimeOngoing
    /\ \E i \in DOMAIN realtime.out :
          \E j \in DOMAIN realtime.out[i].candidates :
             realtime.out[i].candidates[j].vote = 2

\* The stored row of a candidate
CandidateById(id) == FindFirst(candidates, LAMBDA c : c.id = id)[1]

\* C15: a response computed while the election was ongoing carries, for
\* every candidate, an empty middle and last name and a positional label as
\* first name, never the stored first name; a response computed while the
\* election was not ongoing carries the stored first, middle and last name.
C15_NamesMasked ==
    realtime.code = "OK" =>
        \A i \in DOMAIN realtime.out :
           \A j \in DOMAIN realtime.out[i].candidates :
              LET entry == realtime.out[i].candidates[j]
                  row == CandidateById(entry.id)
              IN  IF RealtimeOngoing
                  THEN /\ entry.first_name = CandidateLabels[j]
                       /\ entry.first_name # row.first_name
                       /\ entry.middle_name = ""
                       /\ entry.last_name = ""
                  ELSE /\ entry.first_name = row.first_name
                       /\ entry.middle_name = row.middle_name
                       /\ entry.last_name = row.last_name

\* C15 witness: a response computed while the election was ongoing lists
\* two candidates of one position
C15_Witness ==
    /\ realtime.code = "OK"
    /\ RealtimeOngoing
    /\ \E i \in DOMAIN realtime.out : Len(realtime.out[i].candidates) >= 2

\* The place of a candidate in the query result, which is in table order
PlaceOf(id) == CHOOSE k \in DOMAIN candidates : candidates[k].id = id

\* C16: in every response the candidates of a position are in descending
\* order of count, and candidates of equal count are in the order of the
\* query result.
C16_SortedStable ==
    realtime.code = "OK" =>
        \A i \in DOMAIN realtime.out :
           LET cs == realtime.out[i].candidates IN
           \A a, b \in DOMAIN cs :
              a < b =>
                 /\ cs[a].vote >= cs[b].vote
                 /\ cs[a].vote = cs[b].vote
                       => PlaceOf(cs[a].id) < PlaceOf(cs[b].id)

\* C16 witness: candidates c1, c2, c3 of one position with counts 1, 2, 2
\* are returned in the order c2, c3, c1
C16_Witness ==
    /\ realtime.code = "OK"
    /\ \E i \in DOMAIN realtime.out :
          LET cs == realtime.out[i].candidates IN
          /\ Len(cs) = 3
          /\ cs[1].id = "c2" /\ cs[1].vote = 2
          /\ cs[2].id = "c3" /\ cs[2].vote = 2
          /\ cs[3].id = "c1" /\ cs[3].vote = 1

\* C17: a getElectionRealtime call changes no table, and when a response
\* for the same election was answered since the last write, the new
\* response has the same position totals and candidate counts.
C17_ReadOnlyIdempotent ==
    [][ (realtime' # realtime /\ realtime'.code # "NONE") =>
           /\ dbvars' = dbvars
           /\ ( /\ realtime.code = "OK"
                /\ realtime'.code = "OK"
                /\ realtime'.slug = realtime.slug )
              => Counts(realtime'.out) = Counts(realtime.out) ]_vars

\* C17 witness: a second response for the same election with no write in
\* between, computed after the election's end, with a vote counted
C17_Witness ==
    /\ realtime.code = "OK"
    /\ realtime.again
    /\ realtime.now = MaxTime
    /\ \E i \in DOMAIN realtime.out :
          \E j \in DOMAIN realtime.out[i].candidates :
             realtime.out[i].candidates[j].vote > 0

HasCommissioner(election_id) ==
    \E i \in DOMAIN commissioners : commissioners[i].election_id = election_id

HasDefaultPartylist(election_id) ==
    \E l \in DOMAIN partylists : /\ partylists[l].election_id = election_id
                                 /\ partylists[l].acronym = "IND"

\* C18 (as claimed): in every state in which no creation is in flight,
\* also after a creation that failed in the middle, every election row has
\* the commissioner row of its creator and its default partylist "IND".
C18_ElectionWithItsRows ==
    creating = <<>> =>
        \A e \in DOMAIN elections :
            /\ HasCommissioner(elections[e].id)
            /\ HasDefaultPartylist(elections[e].id)

\* C19 (as claimed): an already-voted rejection and a not-ongoing rejection
\* are different typed outcomes: the error code of a request rejected
\* because its caller has already voted is not the error code of a
\* not-ongoing rejection.  (That a caller without standing is rejected at
\* all is C9.)
C19_TypedRejections ==
    \A p \in Procs :
        (pc[p] = "done" /\ result[p] = AlreadyVoted) =>
            result[p].code # NotOngoing.code

\* C20 (as claimed): every election row has start_date < end_date.
C20_StartBeforeEnd ==
    \A e \in DOMAIN elections :
        elections[e].start_date < elections[e].end_date

\* C21 (as claimed): no two election rows have the same slug and no
\* election row has a slug of takenSlugs.
C21_SlugsUniqueNotTaken ==
    /\ \A e, f \in DOMAIN elections :
          elections[e].slug = elections[f].slug => e = f
    /\ \A e \in DOMAIN elections : elections[e].slug \notin takenSlugs

\* C22: no two partylists of the same election that are not deleted have
\* the same acronym.
C22_AcronymsUnique ==
    \A i, j \in DOMAIN partylists :
        ( /\ partylists[i].election_id = partylists[j].election_id
          /\ partylists[i].deleted_at = NoDate
          /\ partylists[j].deleted_at = NoDate
          /\ partylists[i].acronym = partylists[j].acronym ) => i = j

\* C23: every election that is not deleted has exactly one partylist that is
\* not deleted and has the acronym "IND".
C23_OneIndependent ==
    \A e \in DOMAIN elections :
        elections[e].deleted_at = NoDate =>
            Cardinality({l \in DOMAIN partylists :
                /\ partylists[l].election_id = elections[e].id
                /\ partylists[l].acronym = "IND"
                /\ partylists[l].deleted_at = NoDate}) = 1

\* C24: an editPartylist call that asks for the acronym "IND" is answered by
\* the error of the reserved acronym and leaves the partylist rows as they
\* were, and no step gives the acronym "IND" to a row that had another one.
C24_ReservedAcronymRejected ==
    [][ /\ (edited' # edited /\ edited'.newAcronym = "IND") =>
              /\ edited'.result = ReservedAcronym
              /\ partylists' = partylists
        /\ \A l \in DOMAIN partylists :
              (l \in DOMAIN partylists' /\ partylists'[l].acronym = "IND") =>
                  partylists[l].acronym = "IND" ]_vars

\* C24: the edit of a partylist to "IND" was rejected while a partylist with
\* another acronym was there to be renamed
C24_Witness ==
    /\ edited = [newAcronym |-> "IND", result |-> ReservedAcronym]
    /\ \E l \in DOMAIN partylists :
          partylists[l].acronym # "IND" /\ partylists[l].deleted_at = NoDate

\* C25: no two candidates of the same election that are not deleted have the
\* same slug.
C25_CandidateSlugsUnique ==
    \A i, j \in DOMAIN candidates :
        ( /\ candidates[i].election_id = candidates[j].election_id
          /\ candidates[i].deleted_at = NoDate
          /\ candidates[j].deleted_at = NoDate
          /\ candidates[i].slug = candidates[j].slug ) => i = j

\* C26: no two voters of the same election have the same email.
C26_VoterEmailsUnique ==
    \A i, j \in DOMAIN voters :
        ( /\ voters[i].election_id = voters[j].election_id
          /\ voters[i].email = voters[j].email ) => i = j

\* C27: no two positions of the same election have the same display order.
C27_OrdersUnique ==
    \A i, j \in DOMAIN positions :
        ( /\ positions[i].election_id = positions[j].election_id
          /\ positions[i].order = positions[j].order ) => i = j

\* C28: no step removes a row of the election, position, partylist or
\* candidate table, and a deletion marker that is set stays set.
C28_OnlySoftDeleted ==
    [][ /\ \A e \in DOMAIN elections : \E f \in DOMAIN elections' :
              /\ elections'[f].id = elections[e].id
              /\ elections[e].deleted_at # NoDate =>
                    elections'[f].deleted_at # NoDate
        /\ \A i \in DOMAIN positions : \E j \in DOMAIN positions' :
              /\ positions'[j].id = positions[i].id
              /\ positions[i].deleted_at # NoDate =>
                    positions'[j].deleted_at # NoDate
        /\ \A l \in DOMAIN partylists :
              /\ l \in DOMAIN partylists'
              /\ partylists[l].deleted_at # NoDate =>
                    partylists'[l].deleted_at # NoDate
        /\ \A c \in DOMAIN candidates : \E d \in DOMAIN candidates' :
              /\ candidates'[d].id = candidates[c].id
              /\ candidates[c].deleted_at # NoDate =>
                    candidates'[d].deleted_at # NoDate ]_vars

\* C29: in a response computed while the election was ongoing, the entry at
\* rank k of every position has the first name "Candidate k", and no entry of
\* the position has a higher count than the entry "Candidate 1".
C29_LabelsFollowRank ==
    (realtime.code = "OK" /\ RealtimeOngoing) =>
        \A i \in DOMAIN realtime.out :
           LET cs == realtime.out[i].candidates
               label == <<"Candidate 1", "Candidate 2", "Candidate 3",
                          "Candidate 4", "Candidate 5", "Candidate 6">>
           IN  /\ DOMAIN cs = 1..Len(cs)
               /\ \A k \in 1..Len(cs) :
                     /\ cs[k].first_name = label[k]
                     /\ cs[1].vote >= cs[k].vote

\* C29 witness: a response computed while the election was ongoing in which
\* the sort moved a later candidate of the table before an earlier one
C29_Witness ==
    /\ realtime.code = "OK"
    /\ RealtimeOngoing
    /\ \E i \in DOMAIN realtime.out :
          LET cs == realtime.out[i].candidates IN
          /\ Len(cs) >= 2
          /\ cs[1].vote > cs[2].vote
          /\ PlaceOf(cs[1].id) > PlaceOf(cs[2].id)
          /\ cs[1].first_name = "Candidate 1"

\* The stored row of a position
PositionById(id) == FindFirst(positions, LAMBDA p : p.id = id)[1]

C31_VoterCallsAuthorized ==
    [][ voterCall' # voterCall =>
          LET call == voterCall' IN
          /\ ElectionById(call.election_id) = <<>> =>
                (call.result = ElectionNotFound /\ voters' = voters)
          /\ ( /\ ElectionById(call.election_id) # <<>>
               /\ ~call.commissioner ) =>
                (call.result = Unauthorized /\ voters' = voters) ]_vars

\* C31 witness: a call for an election with a registered voter, made by a
\* user who is no commissioner of it, was answered UNAUTHORIZED
C31_Witness ==
    /\ voterCall.result = Unauthorized
    /\ ~voterCall.commissioner
    /\ \E v \in DOMAIN voters : voters[v].election_id = voterCall.election_id

\* C32: no step changes the row of an election while the only caller of
\* editElection is a user who is no commissioner of that election.
C32_StrangerEditRejected ==
    [][ \A e \in DOMAIN elections :
           ~IsCommissioner(Stranger, elections[e].id) =>
               elections'[e] = elections[e] ]_vars

\* Every candidate entry of a response carries a label and no stored name
Masked(out) ==
    \A i \in DOMAIN out :
       \A j \in DOMAIN out[i].candidates :
          LET entry == out[i].candidates[j] IN
          /\ entry.first_name # CandidateById(entry.id).first_name
          /\ entry.middle_name = ""
          /\ entry.last_name = ""

\* C33: when a ballot for an election that is not deleted is accepted at
\* the instant for which a response of getElectionRealtime for that election
\* is remembered, that response masks every candidate name; a response that
\* discloses a stored name is never followed, at its instant, by an accepted
\* ballot for its election.
C33_GuardAndDisclosureAgree ==
    [][ ( /\ realtime.code = "OK"
          /\ realtime.now = now
          /\ Len(votes') > Len(votes)
          /\ votes'[Len(votes')].election_id = RealtimeElection.id )
        => Masked(realtime.out) ]_vars

\* C33 witness: a masked response with two candidates is remembered at an
\* instant at which the election is ongoing and a user has not voted yet
C33_Witness ==
    /\ realtime.code = "OK"
    /\ realtime.now = now
    /\ isElectionOngoing(RealtimeElection, now)
    /\ Masked(realtime.out)
    /\ \E i \in DOMAIN realtime.out : Len(realtime.out[i].candidates) = 2
    /\ \E u \in Users : ExistingVotes(u, RealtimeElection.id) = <<>>
    /\ votes # <<>>

\* The vote rows of a user in an election
BallotOf(table, u, e) ==
    SelectSeq(table, LAMBDA v : v.voter_id = u /\ v.election_id = e)

\* C34: once a user has vote rows in an election, no step adds to them or
\* changes them, and no `vote` request of that user for that election is
\* answered with success.
C34_NoSecondBallot ==
    [][ \A u \in Users, e \in ElectionIds :
           BallotOf(votes, u, e) # <<>> =>
              /\ BallotOf(votes', u, e) = BallotOf(votes, u, e)
              /\ \A p \in Procs :
                    ( /\ AnsweredNow(p)
                      /\ session[p] = u
                      /\ input[p].election_id = e ) => result'[p] # OK ]_vars

\* C35: no two rows of the vote table have the same voter_id, election_id
\* and candidate_id.
C35_OneRowPerCandidate ==
    \A i, j \in DOMAIN votes :
        ( /\ votes[i].candidate_id # NULL
          /\ votes[i].voter_id = votes[j].voter_id
          /\ votes[i].election_id = votes[j].election_id
          /\ votes[i].candidate_id = votes[j].candidate_id ) => i = j

\* C36: for every user and every position, the number of the user's vote
\* rows for candidates of the position lies between the position's min and
\* max.
C36_SelectionsWithinMinMax ==
    \A u \in Users, i \in DOMAIN positions :
        LET n == Count(LAMBDA v :
                     /\ v.voter_id = u
                     /\ v.election_id = positions[i].election_id
                     /\ v.candidate_id # NULL
                     /\ \E c \in DOMAIN candidates :
                           /\ candidates[c].id = v.candidate_id
                           /\ candidates[c].position_id = positions[i].id)
        IN  BallotOf(votes, u, positions[i].election_id) # <<>> =>
                (positions[i].min <= n /\ n <= positions[i].max)

\* C37: every vote row has exactly one of candidate_id and position_id; its
\* candidate_id is the id of a candidate row of its election, its
\* position_id the id of a position row of its election.
C37_VoteRowsSound ==
    \A i \in DOMAIN votes :
        /\ (votes[i].candidate_id = NULL) # (votes[i].position_id = NULL)
        /\ votes[i].candidate_id # NULL =>
              \E c \in DOMAIN candidates :
                 /\ candidates[c].id = votes[i].candidate_id
                 /\ candidates[c].election_id = votes[i].election_id
        /\ votes[i].position_id # NULL =>
              \E p \in DOMAIN positions :
                 /\ positions[p].id = votes[i].position_id
                 /\ positions[p].election_id = votes[i].election_id

\* The rows of a vote table that are not rows of user u in election e
RowsOfOthers(table, u, e) ==
    SelectSeq(table, LAMBDA v : ~(v.voter_id = u /\ v.election_id = e))

\* C38: every step of a `vote` request of user V for election E, answered
\* with success or with an error, leaves the election, commissioner,
\* position, partylist, candidate and voter tables as they were, leaves every
\* vote row that is not a row of V in E as it was and in its place among
\* those rows, and leaves unchanged whether any other user has voted in any
\* election.
C38_VoteChangesOwnRowsOnly ==
    [][ \A p \in Procs :
           pc'[p] # pc[p] =>
              LET V == session'[p]
                  E == input'[p].election_id
              IN  /\ UNCHANGED <<elections, commissioners, partylists,
                                 positions, candidates, voters>>
                  /\ RowsOfOthers(votes', V, E) = RowsOfOthers(votes, V, E)
                  /\ \A u \in Users, e \in ElectionIds :
                        <<u, e>> # <<V, E>> =>
                           (HasRow(u, e)' <=> HasRow(u, e)) ]_vars

\* C38 witness: two requests of different users were answered with success,
\* so the later ballot was inserted while the other user's rows were there
C38_Witness ==
    \E p, q \in Procs :
        /\ pc[p] = "done" /\ result[p] = OK
        /\ pc[q] = "done" /\ result[q] = OK
        /\ session[p] # session[q]
        /\ HasRow(session[p], input[p].election_id)
        /\ HasRow(session[q], input[q].election_id)

====
